---- MODULE Spec2Model ----
(***************************************************************************)
(* Insight_Miner analysis pipeline: run_analysis and the contextual        *)
(* financial-fact linker of nlp_pipeline.py.                               *)
(*                                                                         *)
(* Python strings are sequences of one-character strings, so slicing,      *)
(* strip(), lower(), substring tests and the regular expressions are       *)
(* computed character by character.  The spaCy pipeline and the category   *)
(* classifier are external: their results are nondeterministic choices.    *)
(***************************************************************************)
EXTENDS Integers, Sequences, FiniteSets, TLC

VARIABLES
    text,            \* argument of run_analysis: [isNone, s]
    nlp,             \* module global nlp: "None" or "loaded"
    predict,         \* what classifier.predict does on this text: "raises" or a label
    pc,              \* position inside run_analysis / _heuristic_contextual_linker
    summary_sentences, \* local summary_sentences (line 143)
    summary,         \* local summary
    doc,             \* local doc: [isNone, sents]
    entities,        \* local entities: label -> list of strings
    article_type,    \* local article_type
    facts,           \* linker local facts (candidate list)
    current_org,     \* linker local current_org (<<>> stands for None)
    i,               \* number of sentences of doc.sents the linker loop has consumed
    financial_facts, \* returned DataFrame rows
    raw_text         \* 'raw_text' of the degraded report

vars == <<text, nlp, predict, pc, summary_sentences, summary, doc, entities, article_type, facts,
          current_org, i, financial_facts, raw_text>>

(***************************************************************************)
(* Bounds of the model.                                                    *)
(***************************************************************************)
\* longest document handed to the linker on its own
MaxSents == 3

\* longest document returned by nlp(text[:50000]) inside run_analysis
MaxDocSents == 2

\* most sentences returned by nlp(text_to_summarize)
MaxSummSents == 4

(***************************************************************************)
(* Characters and the str methods the code uses.                           *)
(***************************************************************************)
Whitespace == {" ", "\t", "\n", "\r"}

Digits == {"0", "1", "2", "3", "4", "5", "6", "7", "8", "9"}

UpperCase ==
    <<"A", "B", "C", "D", "E", "F", "G", "H", "I", "J", "K", "L", "M", "N",
      "O", "P", "Q", "R", "S", "T", "U", "V", "W", "X", "Y", "Z">>

LowerCase ==
    <<"a", "b", "c", "d", "e", "f", "g", "h", "i", "j", "k", "l", "m", "n",
      "o", "p", "q", "r", "s", "t", "u", "v", "w", "x", "y", "z">>

LowerChar(c) ==
    IF \E k \in 1..26 : UpperCase[k] = c
    THEN LowerCase[CHOOSE k \in 1..26 : UpperCase[k] = c]
    ELSE c

\* str.lower()
Lower(s) == [k \in 1..Len(s) |-> LowerChar(s[k])]

Min(a, b) == IF a <= b THEN a ELSE b

\* s[:n]
Take(s, n) == SubSeq(s, 1, Min(n, Len(s)))

\* sub in s
Contains(s, sub) ==
    \E k \in 0..(Len(s) - Len(sub)) : SubSeq(s, k + 1, k + Len(sub)) = sub

\* s.startswith(p)
StartsWith(s, p) == Len(s) >= Len(p) /\ SubSeq(s, 1, Len(p)) = p

\* s.strip()
Strip(s) ==
    IF \A k \in 1..Len(s) : s[k] \in Whitespace
    THEN <<>>
    ELSE LET a == CHOOSE k \in 1..Len(s) :
                      s[k] \notin Whitespace /\ \A m \in 1..(k - 1) : s[m] \in Whitespace
             b == CHOOSE k \in 1..Len(s) :
                      s[k] \notin Whitespace /\ \A m \in (k + 1)..Len(s) : s[m] \in Whitespace
         IN  SubSeq(s, a, b)

\* s.replace("\n", " ")
ReplaceNewline(s) == [k \in 1..Len(s) |-> IF s[k] = "\n" THEN " " ELSE s[k]]

\* sep.join(parts) for a one-character separator
RECURSIVE Join(_, _)
Join(sep, parts) ==
    IF parts = <<>> THEN <<>>
    ELSE IF Len(parts) = 1 THEN parts[1]
    ELSE parts[1] \o <<sep>> \o Join(sep, Tail(parts))

\* c repeated n times
Rep(c, n) == [k \in 1..n |-> c]

(***************************************************************************)
(* FINANCIAL_METRICS and the two regular expressions it uses.              *)
(***************************************************************************)
kw_revenue ==
    <<"r", "e", "v", "e", "n", "u", "e">>

kw_sales ==
    <<"s", "a", "l", "e", "s">>

kw_net_income ==
    <<"n", "e", "t", " ", "i", "n", "c", "o", "m", "e">>

kw_operating_income ==
    <<"o", "p", "e", "r", "a", "t", "i", "n", "g", " ", "i", "n", "c", "o",
    "m", "e">>

kw_eps ==
    <<"e", "a", "r", "n", "i", "n", "g", "s", " ", "p", "e", "r", " ", "s",
    "h", "a", "r", "e">>

kw_diluted_eps ==
    <<"d", "i", "l", "u", "t", "e", "d", " ", "e", "a", "r", "n", "i", "n",
    "g", "s", " ", "p", "e", "r", " ", "s", "h", "a", "r", "e">>

u_billion ==
    <<"b", "i", "l", "l", "i", "o", "n">>

u_million ==
    <<"m", "i", "l", "l", "i", "o", "n">>

u_trillion ==
    <<"t", "r", "i", "l", "l", "i", "o", "n">>

\* [\d\.,]
NumChars == Digits \cup {".", ","}

\* [ \d\.,]
EpsChars == NumChars \cup {" "}

Units == <<u_billion, u_million, u_trillion>>

\* a dict keeps insertion order: Revenue, Net Income, Operating Income, EPS
FINANCIAL_METRICS ==
    << [name |-> "Revenue", keywords |-> <<kw_revenue, kw_sales>>, pattern |-> "money"],
       [name |-> "Net Income", keywords |-> <<kw_net_income>>, pattern |-> "money"],
       [name |-> "Operating Income", keywords |-> <<kw_operating_income>>,
        pattern |-> "money"],
       [name |-> "Earnings Per Share", keywords |-> <<kw_eps, kw_diluted_eps>>,
        pattern |-> "eps"] >>

\* last index of the greedy run of characters of C that starts at k (k - 1 if empty)
RECURSIVE RunEnd(_, _, _)
RunEnd(s, k, C) ==
    IF k <= Len(s) /\ s[k] \in C THEN RunEnd(s, k + 1, C) ELSE k - 1

\* (?:billion|million|trillion)? after index k, under re.IGNORECASE
UnitEnd(s, k) ==
    IF \E u \in 1..Len(Units) :
           /\ k + Len(Units[u]) <= Len(s)
           /\ Lower(SubSeq(s, k + 1, k + Len(Units[u]))) = Units[u]
    THEN LET u == CHOOSE u \in 1..Len(Units) :
                      /\ k + Len(Units[u]) <= Len(s)
                      /\ Lower(SubSeq(s, k + 1, k + Len(Units[u]))) = Units[u]
         IN  k + Len(Units[u])
    ELSE k

\* \$[\d\.,]+\s*(?:billion|million|trillion)? anchored at k: index of the last
\* matched character, 0 when there is no match at k
MoneyMatchEnd(s, k) ==
    IF s[k] = "$" /\ k + 1 <= Len(s) /\ s[k + 1] \in NumChars
    THEN UnitEnd(s, RunEnd(s, RunEnd(s, k + 1, NumChars) + 1, Whitespace))
    ELSE 0

\* \$[ \d\.,]+ anchored at k
EpsMatchEnd(s, k) ==
    IF s[k] = "$" /\ k + 1 <= Len(s) /\ s[k + 1] \in EpsChars
    THEN RunEnd(s, k + 1, EpsChars)
    ELSE 0

MatchEnd(pattern, s, k) ==
    IF pattern = "money" THEN MoneyMatchEnd(s, k) ELSE EpsMatchEnd(s, k)

\* re.findall(pattern, s, re.IGNORECASE): the non-overlapping matches, left to right
RECURSIVE FindAllFrom(_, _, _)
FindAllFrom(pattern, s, k) ==
    IF k > Len(s) THEN <<>>
    ELSE LET e == MatchEnd(pattern, s, k)
         IN  IF e = 0 THEN FindAllFrom(pattern, s, k + 1)
             ELSE <<SubSeq(s, k, e)>> \o FindAllFrom(pattern, s, e + 1)

FindAll(pattern, s) == FindAllFrom(pattern, s, 1)

(***************************************************************************)
(* _heuristic_contextual_linker                                            *)
(***************************************************************************)
k_Microsoft ==
    <<"M", "i", "c", "r", "o", "s", "o", "f", "t">>

k_Apple ==
    <<"A", "p", "p", "l", "e">>

k_Google ==
    <<"G", "o", "o", "g", "l", "e">>

k_Amazon ==
    <<"A", "m", "a", "z", "o", "n">>

\* current_org = None (an entity's text is never empty, and the code only tests
\* current_org for truth)
None == <<>>

KnownNames == {k_Microsoft, k_Apple, k_Google, k_Amazon}

\* [ent.text for ent in sent.ents if ent.label_ == 'ORG']
SentOrgs(sent) ==
    LET orgs == SelectSeq(sent.ents, LAMBDA e : e.label_ = "ORG")
    IN  [k \in 1..Len(orgs) |-> orgs[k].text]

IsKnown(org) == \E name \in KnownNames : Contains(org, name)

\* faulty variant: the allow-list is ignored
ChooseOrgFirst(sent_orgs) == sent_orgs[1]

\* known_orgs[0] if known_orgs else sent_orgs[0]
ChooseOrg(sent_orgs) ==
    LET known_orgs == SelectSeq(sent_orgs, IsKnown)
    IN  IF known_orgs # <<>> THEN known_orgs[1] ELSE sent_orgs[1]

\* faulty variant: a sentence without organizations clears the active organization
NextOrgReset(cur, sent) ==
    IF SentOrgs(sent) # <<>> THEN ChooseOrg(SentOrgs(sent)) ELSE None

\* current_org after lines 98-102
NextOrg(cur, sent) ==
    IF SentOrgs(sent) # <<>> THEN ChooseOrg(SentOrgs(sent)) ELSE cur

\* if len(value) > 2
KeepValue(value) == Len(value) > 2

\* any(keyword in sent.text.lower() for keyword in details['keywords'])
HasKeyword(details, sent) ==
    \E k \in 1..Len(details.keywords) : Contains(Lower(sent.text), details.keywords[k])

\* the rows one metric appends for one sentence
MetricFacts(org, details, sent) ==
    IF HasKeyword(details, sent)
    THEN LET values == SelectSeq(FindAll(details.pattern, sent.text), KeepValue)
         IN  [k \in 1..Len(values) |->
                 [Company |-> org, Metric |-> details.name, Value |-> Strip(values[k])]]
    ELSE <<>>

\* the rows the loop over FINANCIAL_METRICS appends for one sentence
RECURSIVE SentFactsFrom(_, _, _)
SentFactsFrom(org, sent, m) ==
    IF m > Len(FINANCIAL_METRICS) THEN <<>>
    ELSE MetricFacts(org, FINANCIAL_METRICS[m], sent) \o SentFactsFrom(org, sent, m + 1)

\* faulty variant: the "if not current_org: continue" is missing
SentFactsNoSkip(org, sent) == SentFactsFrom(org, sent, 1)

\* if not current_org: continue
SentFacts(org, sent) ==
    IF org = None THEN <<>> ELSE SentFactsFrom(org, sent, 1)

\* faulty variant: drop_duplicates(keep='last')
RECURSIVE DropDuplicatesKeepLast(_)
DropDuplicatesKeepLast(rows) ==
    IF rows = <<>> THEN <<>>
    ELSE LET rest == DropDuplicatesKeepLast(Tail(rows))
         IN  IF \E k \in 1..Len(rest) : rest[k] = rows[1] THEN rest ELSE <<rows[1]>> \o rest

\* DataFrame.drop_duplicates().reset_index(drop=True): keep the first of equal rows
RECURSIVE DropDuplicates(_)
DropDuplicates(rows) ==
    IF rows = <<>> THEN <<>>
    ELSE LET init == DropDuplicates(SubSeq(rows, 1, Len(rows) - 1))
             last == rows[Len(rows)]
         IN  IF \E k \in 1..Len(init) : init[k] = last THEN init ELSE Append(init, last)

\* lines 113-116
LinkerResult(rows) ==
    IF rows = <<>> THEN <<>> ELSE DropDuplicates(rows)

(***************************************************************************)
(* run_analysis: entity aggregation, summary, classification.              *)
(***************************************************************************)
ErrorPrefix ==
    <<"E", "r", "r", "o", "r", ":">>

SummaryNA ==
    <<"N", "/", "A", " ", "-", " ", "C", "o", "u", "l", "d", " ", "n", "o",
    "t", " ", "p", "r", "o", "c", "e", "s", "s", " ", "a", "r", "t", "i",
    "c", "l", "e", " ", "t", "e", "x", "t", ".">>

SummaryFailed ==
    <<"C", "o", "u", "l", "d", " ", "n", "o", "t", " ", "g", "e", "n", "e",
    "r", "a", "t", "e", " ", "s", "u", "m", "m", "a", "r", "y", ".">>

Ellipsis ==
    <<".", ".", ".">>

RawNA ==
    <<"N", "/", "A">>

MIN_CHARS == 150

MAX_CHARS == 40000

SUMMARY_CHARS == 300

RAW_CHARS == 500

SUMMARY_SENTS == 3

TOP_N == 5

\* for label in ['ORG', 'PERSON', 'GPE']
Labels == {"ORG", "PERSON", "GPE"}

\* doc.ents: the entities of all sentences, in document order
RECURSIVE DocEnts(_)
DocEnts(sents) ==
    IF sents = <<>> THEN <<>> ELSE sents[1].ents \o DocEnts(Tail(sents))

\* [ent.text.strip() for ent in doc.ents if ent.label_ == label]
LabelEntities(sents, label) ==
    LET ents == SelectSeq(DocEnts(sents), LAMBDA e : e.label_ = label)
    IN  [k \in 1..Len(ents) |-> Strip(ents[k].text)]

\* the keys of Counter(items), in insertion (first-seen) order
RECURSIVE CounterKeys(_)
CounterKeys(items) ==
    IF items = <<>> THEN <<>>
    ELSE LET init == CounterKeys(SubSeq(items, 1, Len(items) - 1))
             last == items[Len(items)]
         IN  IF \E k \in 1..Len(init) : init[k] = last THEN init ELSE Append(init, last)

\* Counter(items)[x]
Count(items, x) == Cardinality({k \in 1..Len(items) : items[k] = x})

\* [item for item, count in Counter(items).most_common(n)]: the keys by
\* descending count, equal counts in insertion order, cut to n
MostCommon(items, n) ==
    LET keys == CounterKeys(items)
        Rank(p) == Cardinality({q \in 1..Len(keys) :
                       \/ Count(items, keys[q]) > Count(items, keys[p])
                       \/ Count(items, keys[q]) = Count(items, keys[p]) /\ q < p})
        sorted == [r \in 1..Len(keys) |->
                       keys[CHOOSE p \in 1..Len(keys) : Rank(p) = r - 1]]
    IN  Take(sorted, n)

\* lines 160-165 for one label
CommonEntities(sents, label) ==
    LET label_entities == LabelEntities(sents, label)
        common == MostCommon(label_entities, TOP_N)
    IN  IF label_entities # <<>>
        THEN [k \in 1..Len(common) |-> ReplaceNewline(common[k])]
        ELSE <<>>

\* lines 157-167
Entities(d) ==
    IF d.isNone
    THEN [l \in Labels |-> <<>>]
    ELSE [l \in Labels |-> CommonEntities(d.sents, l)]

\* text_clean[:MAX_CHARS]
TextToSummarize(s) == Take(Strip(s), MAX_CHARS)

\* lines 143-147: sent_texts are the texts of doc.sents
SummarySentences(sent_texts) ==
    LET first == Take(sent_texts, SUMMARY_SENTS)
    IN  [k \in 1..Len(first) |-> Strip(first[k])]

\* faulty variant: the fallback forgets the ellipsis
SummarizeNoEllipsis(sentences, text_to_summarize) ==
    IF sentences # <<>>
    THEN Join(" ", sentences)
    ELSE Take(text_to_summarize, SUMMARY_CHARS)

\* line 149
Summarize(sentences, text_to_summarize) ==
    IF sentences # <<>>
    THEN Join(" ", sentences)
    ELSE Take(text_to_summarize, SUMMARY_CHARS) \o Ellipsis

\* lines 138-152 when nlp is None: the RuntimeError is caught at line 150
SummaryWithoutModel(text_to_summarize) == SummaryFailed

\* faulty variant: the except clause does not replace the label
ClassifyResultUncaught(p) == p

\* lines 170-175: the label predicted, or the fixed label when predict raises
ClassifyResult(p) == IF p = "raises" THEN "Classification Failed" ELSE p

\* faulty variant: the guard forgets the error sentinel
UnanalyzableNoSentinel(t) ==
    \/ t.isNone
    \/ t.s = <<>>
    \/ Len(t.s) < MIN_CHARS

\* not text or text.startswith("Error:") or len(text) < 150
Unanalyzable(t) ==
    \/ t.isNone
    \/ t.s = <<>>
    \/ StartsWith(t.s, ErrorPrefix)
    \/ Len(t.s) < MIN_CHARS

\* text[:500] + "..." if text else "N/A"
RawText(t) ==
    IF t.isNone \/ t.s = <<>> THEN RawNA ELSE Take(t.s, RAW_CHARS) \o Ellipsis

\* 'entities': {} of the degraded report
EmptyMap == <<>>

(***************************************************************************)
(* Inputs: sentences as spaCy returns them, documents, article texts.      *)
(***************************************************************************)
n_Acme ==
    <<"A", "c", "m", "e">>

n_AppleInc ==
    <<"A", "p", "p", "l", "e", " ", "I", "n", "c">>

n_InitechNL ==
    <<"I", "n", "i", "t", "e", "c", "h", "\n", "L", "L", "C">>

n_InitechSP ==
    <<"I", "n", "i", "t", "e", "c", "h", " ", "L", "L", "C">>

n_Globex ==
    <<"G", "l", "o", "b", "e", "x">>

n_Umbrella ==
    <<"U", "m", "b", "r", "e", "l", "l", "a">>

n_Hooli ==
    <<"H", "o", "o", "l", "i">>

n_HooliPad ==
    <<"H", "o", "o", "l", "i", " ">>

n_Stark ==
    <<"S", "t", "a", "r", "k">>

n_Paris ==
    <<"P", "a", "r", "i", "s">>

n_Satya ==
    <<"S", "a", "t", "y", "a">>

t_s1 ==
    <<"M", "i", "c", "r", "o", "s", "o", "f", "t", " ", "r", "e", "p", "o",
    "r", "t", "e", "d", " ", "r", "e", "v", "e", "n", "u", "e", " ", "o",
    "f", " ", "$", "5", "6", ".", "5", " ", "b", "i", "l", "l", "i", "o",
    "n", ".">>

t_s2 ==
    <<"I", "t", " ", "a", "l", "s", "o", " ", "g", "r", "e", "w", ".">>

t_s3 ==
    <<"N", "e", "t", " ", "i", "n", "c", "o", "m", "e", " ", "w", "a", "s",
    " ", "$", "2", "1", ".", "9", " ", "B", "i", "l", "l", "i", "o", "n",
    " ", "a", "n", "d", " ", "s", "a", "l", "e", "s", " ", "r", "o", "s",
    "e", ".">>

t_s4 ==
    <<"A", "c", "m", "e", " ", "a", "n", "d", " ", "A", "p", "p", "l", "e",
    " ", "I", "n", "c", " ", "p", "o", "s", "t", "e", "d", " ", "s", "a",
    "l", "e", "s", " ", "o", "f", " ", "$", "5", " ", "m", "o", "r", "e",
    ".">>

t_s5 ==
    <<"A", "c", "m", "e", " ", "s", "a", "l", "e", "s", " ", "r", "o", "s",
    "e", " ", "f", "r", "o", "m", " ", "$", "1", ".", "5", " ", "m", "i",
    "l", "l", "i", "o", "n", " ", "t", "o", " ", "$", "2", " ", "m", "i",
    "l", "l", "i", "o", "n", ".">>

t_s6 ==
    <<"I", "n", " ", "P", "a", "r", "i", "s", ",", " ", "S", "a", "t", "y",
    "a", " ", "s", "a", "i", "d", " ", "r", "e", "v", "e", "n", "u", "e",
    " ", "w", "a", "s", " ", "$", "5", "6", ".", "5", " ", "b", "i", "l",
    "l", "i", "o", "n", ".">>

t_s7 ==
    <<"D", "i", "l", "u", "t", "e", "d", " ", "e", "a", "r", "n", "i", "n",
    "g", "s", " ", "p", "e", "r", " ", "s", "h", "a", "r", "e", " ", "w",
    "e", "r", "e", " ", "$", " ", "2", ".", "4", "5", ",", " ", "u", "p",
    ".">>

t_s8 ==
    <<"E", "a", "r", "n", "i", "n", "g", "s", " ", "p", "e", "r", " ", "s",
    "h", "a", "r", "e", ":", " ", "$", " ", " ", "n", "/", "a", ".">>

t_s9 ==
    <<"A", "c", "m", "e", " ", "s", "a", "l", "e", "s", ":", " ", "$", "9">>

t_e1 ==
    <<"A", "c", "m", "e", ",", " ", "I", "n", "i", "t", "e", "c", "h", "\n",
    "L", "L", "C", ",", " ", "I", "n", "i", "t", "e", "c", "h", " ", "L",
    "L", "C", ",", " ", "G", "l", "o", "b", "e", "x", ",", " ", "U", "m",
    "b", "r", "e", "l", "l", "a", ",", " ", "H", "o", "o", "l", "i", " ",
    "a", "n", "d", " ", "S", "t", "a", "r", "k", " ", "m", "e", "t", " ",
    "A", "c", "m", "e", ".">>

t_e2 ==
    <<"G", "l", "o", "b", "e", "x", " ", "a", "n", "d", " ", "H", "o", "o",
    "l", "i", " ", "l", "e", "f", "t", " ", "P", "a", "r", "i", "s", " ",
    "w", "i", "t", "h", " ", "S", "a", "t", "y", "a", ".", " ">>

t_p1 ==
    <<" ", "S", "h", "a", "r", "e", "s", " ", "r", "o", "s", "e", ".", " ">>

t_p2 ==
    <<"A", "n", "a", "l", "y", "s", "t", "s", " ", "a", "g", "r", "e", "e",
    "d", ".">>

t_p3 ==
    <<"\n", "M", "o", "r", "e", " ", "s", "o", "o", "n", ".", " ">>

t_p4 ==
    <<"T", "h", "e", " ", "e", "n", "d", ".">>

ErrorTextHead ==
    <<"E", "r", "r", "o", "r", ":", " ", "C", "o", "u", "l", "d", " ", "n",
    "o", "t", " ", "r", "e", "t", "r", "i", "e", "v", "e", " ", "a", "r",
    "t", "i", "c", "l", "e", ".", " ">>

Ent(t, l) == [text |-> t, label_ |-> l]

Sent(t, ents) == [text |-> t, ents |-> ents]

s1 == Sent(t_s1, <<Ent(k_Microsoft, "ORG")>>)

s2 == Sent(t_s2, <<>>)

s3 == Sent(t_s3, <<>>)

s4 == Sent(t_s4, <<Ent(n_Acme, "ORG"), Ent(n_AppleInc, "ORG")>>)

s5 == Sent(t_s5, <<Ent(n_Acme, "ORG")>>)

s6 == Sent(t_s6, <<Ent(n_Paris, "GPE"), Ent(n_Satya, "PERSON")>>)

s7 == Sent(t_s7, <<>>)

s8 == Sent(t_s8, <<>>)

s9 == Sent(t_s9, <<Ent(n_Acme, "ORG")>>)

e1 ==
    Sent(t_e1, <<Ent(n_Acme, "ORG"), Ent(n_InitechNL, "ORG"), Ent(n_InitechSP, "ORG"),
                 Ent(n_Globex, "ORG"), Ent(n_Umbrella, "ORG"), Ent(n_Hooli, "ORG"),
                 Ent(n_Stark, "ORG"), Ent(n_Acme, "ORG")>>)

e2 ==
    Sent(t_e2, <<Ent(n_Globex, "ORG"), Ent(n_HooliPad, "ORG"), Ent(n_Paris, "GPE"),
                 Ent(n_Satya, "PERSON")>>)

\* sentences a document handed to the linker is made of
LinkerSentences == {s1, s2, s3, s4, s5, s6, s7, s8, s9}

\* sentences a document parsed inside run_analysis is made of
DocSentences == {s1, s2, s4, e1, e2}

SeqsUpTo(S, n) == UNION {[1..m -> S] : m \in 0..n}

LinkerDocs == SeqsUpTo(LinkerSentences, MaxSents)

Docs == SeqsUpTo(DocSentences, MaxDocSents)

\* sentence texts nlp(text_to_summarize) may return: a prefix of these
ParsedSentences == <<t_s1, t_p1, t_p2, t_p3, t_p4>>

SummaryDocs == {Take(ParsedSentences, m) : m \in 0..MaxSummSents}

Str(s) == [isNone |-> FALSE, s |-> s]

Texts ==
    { [isNone |-> TRUE, s |-> <<>>],
      Str(<<>>),
      Str(t_s1),
      Str(ErrorTextHead \o Rep("x", 200)),
      Str(Rep("x", MIN_CHARS - 1)),
      Str(Rep("x", MIN_CHARS)),
      Str(Rep(" ", MIN_CHARS)),
      Str(<<" ", "\n">> \o Rep("a", SUMMARY_CHARS) \o Rep("b", 10) \o <<" ">>),
      Str(Rep("y", RAW_CHARS + 1)) }

(***************************************************************************)
(* run_analysis, one action per stage.                                     *)
(***************************************************************************)
\* lines 122-130: the guard and the degraded report
Guard ==
    /\ pc = "start"
    /\ IF Unanalyzable(text)
       THEN /\ summary' = SummaryNA
            /\ entities' = EmptyMap
            /\ article_type' = "N/A"
            /\ financial_facts' = <<>>
            /\ raw_text' = RawText(text)
            /\ pc' = "done"
       ELSE /\ pc' = "summarize"
            /\ UNCHANGED <<summary, entities, article_type, financial_facts, raw_text>>
    /\ UNCHANGED <<text, nlp, predict, summary_sentences, doc, facts, current_org, i>>

\* lines 133-152: the summary; nlp(text_to_summarize) returns some sentences
SummarizeStage ==
    /\ pc = "summarize"
    /\ IF nlp = "None"
       THEN /\ summary' = SummaryWithoutModel(TextToSummarize(text.s))
            /\ UNCHANGED summary_sentences
       ELSE \E sent_texts \in SummaryDocs :
                /\ summary_sentences' = SummarySentences(sent_texts)
                /\ summary' = Summarize(summary_sentences', TextToSummarize(text.s))
    /\ pc' = "parse"
    /\ UNCHANGED <<text, nlp, predict, doc, entities, article_type, facts, current_org,
                   i, financial_facts, raw_text>>

\* line 155: doc = nlp(text[:50000]) if nlp is not None else None
ParseStage ==
    /\ pc = "parse"
    /\ IF nlp = "None"
       THEN doc' = [isNone |-> TRUE, sents |-> <<>>]
       ELSE \E sents \in Docs : doc' = [isNone |-> FALSE, sents |-> sents]
    /\ pc' = "entities"
    /\ UNCHANGED <<text, nlp, predict, summary_sentences, summary, entities, article_type, facts,
                   current_org, i, financial_facts, raw_text>>

\* lines 157-167
EntityStage ==
    /\ pc = "entities"
    /\ entities' = Entities(doc)
    /\ pc' = "classify"
    /\ UNCHANGED <<text, nlp, predict, summary_sentences, summary, doc, article_type, facts, current_org,
                   i, financial_facts, raw_text>>

\* lines 170-175
ClassifyStage ==
    /\ pc = "classify"
    /\ article_type' = ClassifyResult(predict)
    /\ pc' = "call"
    /\ UNCHANGED <<text, nlp, predict, summary_sentences, summary, doc, entities, facts, current_org, i,
                   financial_facts, raw_text>>

\* line 177 and lines 94-97: the call; doc.sents of None raises AttributeError,
\* which nothing in run_analysis catches
CallLinker ==
    /\ pc = "call"
    /\ facts' = <<>>
    /\ current_org' = None
    /\ i' = 0
    /\ pc' = IF doc.isNone THEN "raised" ELSE "link"
    /\ UNCHANGED <<text, nlp, predict, summary_sentences, summary, doc, entities, article_type,
                   financial_facts, raw_text>>

\* lines 97-111: one iteration of the loop over doc.sents
LinkStep ==
    /\ pc = "link"
    /\ i < Len(doc.sents)
    /\ LET sent == doc.sents[i + 1]
           org == NextOrg(current_org, sent)
       IN  /\ current_org' = org
           /\ facts' = facts \o SentFacts(org, sent)
    /\ i' = i + 1
    /\ UNCHANGED <<text, nlp, predict, pc, summary_sentences, summary, doc, entities, article_type,
                   financial_facts, raw_text>>

\* lines 113-116 and 179-185: the linker returns and run_analysis returns the report
LinkReturn ==
    /\ pc = "link"
    /\ i = Len(doc.sents)
    /\ financial_facts' = LinkerResult(facts)
    /\ pc' = "done"
    /\ UNCHANGED <<text, nlp, predict, summary_sentences, summary, doc, entities, article_type, facts,
                   current_org, i, raw_text>>

Locals ==
    /\ summary_sentences = <<>>
    /\ summary = <<>>
    /\ entities = <<>>
    /\ article_type = ""
    /\ facts = <<>>
    /\ current_org = None
    /\ i = 0
    /\ financial_facts = <<>>
    /\ raw_text = <<>>

\* a call of run_analysis(text)
Init ==
    /\ text \in Texts
    /\ nlp \in {"None", "loaded"}
    /\ predict \in {"raises", "Business", "Technology"}
    /\ pc = "start"
    /\ doc = [isNone |-> TRUE, sents |-> <<>>]
    /\ Locals

Next ==
    \/ Guard
    \/ SummarizeStage
    \/ ParseStage
    \/ EntityStage
    \/ ClassifyStage
    \/ CallLinker
    \/ LinkStep
    \/ LinkReturn

Spec == Init /\ [][Next]_vars

\* a call of _heuristic_contextual_linker(doc) on its own
LinkerInit ==
    /\ text = Str(<<>>)
    /\ nlp = "loaded"
    /\ predict = "Business"
    /\ pc = "call"
    /\ doc \in {[isNone |-> FALSE, sents |-> sents] : sents \in LinkerDocs}
    /\ Locals

LinkerNext ==
    \/ CallLinker
    \/ LinkStep
    \/ LinkReturn

SpecLinker == LinkerInit /\ [][LinkerNext]_vars

(***************************************************************************)
(* Properties.                                                             *)
(***************************************************************************)
LabelSet == {"ORG", "PERSON", "GPE"}

\* run_analysis got past the guard (every later stage lies behind it)
PastGuard ==
    \/ pc \in {"summarize", "parse", "entities", "classify", "call", "link", "raised"}
    \/ pc = "done" /\ DOMAIN entities # {}

\* the summarizer stage has run
PastSummary ==
    \/ pc \in {"parse", "entities", "classify", "call", "link", "raised"}
    \/ pc = "done" /\ DOMAIN entities # {}

\* the guard's condition, written out
GuardFails ==
    \/ text.isNone
    \/ Len(text.s) = 0
    \/ Len(text.s) >= 6 /\ SubSeq(text.s, 1, 6) = <<"E", "r", "r", "o", "r", ":">>
    \/ Len(text.s) < 150

\* C1: run_analysis never raises: every call ends with a complete report, and
\* without the sentence/entity model a text that passes the guard still gets a
\* report with no facts and the three entity categories mapped to empty lists.
C1_NeverRaises ==
    /\ pc # "raised"
    /\ pc = "done" /\ ~GuardFails /\ nlp = "None" =>
           /\ financial_facts = <<>>
           /\ DOMAIN entities = LabelSet
           /\ \A l \in LabelSet : entities[l] = <<>>

\* C2 as stated: an unanalyzable text gets summary "N/A", all three category
\* keys mapped to empty lists, category "N/A" and no facts.
C2_DegradedShapeAsClaimed ==
    pc = "done" /\ GuardFails =>
        /\ summary = <<"N", "/", "A">>
        /\ DOMAIN entities = LabelSet
        /\ \A l \in LabelSet : entities[l] = <<>>
        /\ article_type = "N/A"
        /\ financial_facts = <<>>

\* C2 as amended: an unanalyzable text gets the summary
\* "N/A - Could not process article text.", an entity map without any key,
\* category "N/A" and no facts.
C2_DegradedShape ==
    pc = "done" /\ GuardFails =>
        /\ summary = SummaryNA
        /\ DOMAIN entities = {}
        /\ article_type = "N/A"
        /\ financial_facts = <<>>

C2_Witness ==
    /\ pc = "done"
    /\ ~text.isNone
    /\ Len(text.s) >= 150
    /\ SubSeq(text.s, 1, 6) = <<"E", "r", "r", "o", "r", ":">>
    /\ summary = SummaryNA

\* the first 300 characters of the stripped, truncated text, then "..."
FallbackSummary == Take(Take(Strip(text.s), 40000), 300) \o <<".", ".", ".">>

EndsWithEllipsis(s) ==
    Len(s) >= 3 /\ SubSeq(s, Len(s) - 2, Len(s)) = <<".", ".", ".">>

\* C3 as stated: without sentence data (model absent, or zero sentences) the
\* summary is the first 300 characters of the truncated text plus "...", ends in
\* the ellipsis and has at most 304 characters.
C3_FallbackAsClaimed ==
    PastSummary /\ (nlp = "None" \/ summary_sentences = <<>>) =>
        /\ summary = FallbackSummary
        /\ EndsWithEllipsis(summary)
        /\ Len(summary) <= 304

\* C3 as amended: when the parse yields zero sentences the summary is the first
\* 300 characters of the truncated text plus "...", ends in the ellipsis and has
\* at most 304 characters; when the model is absent the summary is the fixed
\* string "Could not generate summary.".
C3_Fallback ==
    /\ PastSummary /\ nlp = "loaded" /\ summary_sentences = <<>> =>
           /\ summary = FallbackSummary
           /\ EndsWithEllipsis(summary)
           /\ Len(summary) <= 304
    /\ PastSummary /\ nlp = "None" => summary = SummaryFailed

C3_Witness ==
    /\ pc = "parse"
    /\ nlp = "loaded"
    /\ summary_sentences = <<>>
    /\ Len(Strip(text.s)) > 300
    /\ Len(Strip(text.s)) < Len(text.s)
    /\ Len(summary) = 303

\* C4: when the classifier raises, the category becomes "Classification Failed",
\* the call goes on to the linker, and the summary, the entity map and the parse
\* the facts come from are what they were; the report that is returned has the
\* failure label and all three entity categories.
C4_ClassifierIsolation ==
    /\ [][pc = "classify" /\ predict = "raises" =>
              /\ article_type' = "Classification Failed"
              /\ pc' = "call"
              /\ summary' = summary
              /\ entities' = entities
              /\ doc' = doc]_vars
    /\ [](pc = "done" /\ PastGuard /\ predict = "raises" =>
              /\ article_type = "Classification Failed"
              /\ DOMAIN entities = LabelSet)

C4_Witness ==
    /\ pc = "done"
    /\ predict = "raises"
    /\ article_type = "Classification Failed"
    /\ DOMAIN entities = LabelSet
    /\ entities["ORG"] # <<>>
    /\ financial_facts # <<>>
    /\ Len(summary) > 3

\* index of the first occurrence of x in rows
FirstIndex(rows, x) ==
    CHOOSE k \in 1..Len(rows) : rows[k] = x /\ \A m \in 1..(k - 1) : rows[m] # x

\* position of a metric name in the metric table
MetricIndex(name) ==
    CHOOSE m \in 1..Len(FINANCIAL_METRICS) : FINANCIAL_METRICS[m].name = name

\* C5: the returned facts hold no two equal rows, hold every candidate exactly
\* once and nothing else, and are in the order of the candidates' first
\* occurrences; the candidates are appended sentence by sentence, and within a
\* sentence in metric-table order.
C5_Deduplicated ==
    /\ [](pc = "done" =>
              /\ \A a, b \in 1..Len(financial_facts) :
                     a < b => financial_facts[a] # financial_facts[b]
              /\ \A k \in 1..Len(facts) :
                     Cardinality({a \in 1..Len(financial_facts) :
                                      financial_facts[a] = facts[k]}) = 1
              /\ \A a \in 1..Len(financial_facts) :
                     \E k \in 1..Len(facts) : facts[k] = financial_facts[a]
              /\ \A a, b \in 1..Len(financial_facts) :
                     a < b => FirstIndex(facts, financial_facts[a])
                                  < FirstIndex(facts, financial_facts[b]))
    /\ [][pc = "link" /\ i' = i + 1 =>
              /\ SubSeq(facts', 1, Len(facts)) = facts
              /\ \A a, b \in (Len(facts) + 1)..Len(facts') :
                     a < b => MetricIndex(facts'[a].Metric) <= MetricIndex(facts'[b].Metric)]_vars

C5_Witness ==
    /\ pc = "done"
    /\ Len(financial_facts) >= 2
    /\ Len(facts) > Len(financial_facts)
    /\ facts[Len(facts)] = facts[1]

\* the sentence mentions no organization
NoOrg(sent) == \A k \in 1..Len(sent.ents) : sent.ents[k].label_ # "ORG"

\* the sentences among the first n that mention an organization
OrgSentences(n) == {j \in 1..n : ~NoOrg(doc.sents[j])}

Max(S) == CHOOSE x \in S : \A y \in S : y <= x

\* the rows a loop step has appended
NewFacts == SubSeq(facts', Len(facts) + 1, Len(facts'))

\* C7: a sentence without organizations leaves current_org as it is, an
\* organization once set is never cleared, and a fact from such a sentence has
\* as company the organization chosen in the latest earlier sentence with one.
C7_CarryOver ==
    [][pc = "link" /\ i' = i + 1 =>
           /\ current_org # None => current_org' # None
           /\ NoOrg(doc.sents[i + 1]) =>
                  /\ current_org' = current_org
                  /\ \A k \in 1..Len(NewFacts) :
                         /\ OrgSentences(i) # {}
                         /\ NewFacts[k].Company =
                                ChooseOrg(SentOrgs(doc.sents[Max(OrgSentences(i))]))]_vars

C7_Witness ==
    /\ pc = "link"
    /\ i >= 3
    /\ NoOrg(doc.sents[i])
    /\ NoOrg(doc.sents[i - 1])
    /\ current_org # None
    /\ facts # <<>>
    /\ facts[Len(facts)].Company = current_org
    /\ SentFactsFrom(current_org, doc.sents[i], 1) # <<>>

\* C8: as long as no sentence consumed so far mentions an organization there is
\* no fact, and a document without any organization gives the empty list.
C8_NoSubjectNoFacts ==
    /\ pc \in {"link", "done"} /\ OrgSentences(i) = {} => facts = <<>>
    /\ pc = "done" /\ OrgSentences(Len(doc.sents)) = {} => financial_facts = <<>>

C8_Witness ==
    /\ pc = "done"
    /\ Len(doc.sents) >= 2
    /\ OrgSentences(Len(doc.sents)) = {}
    /\ \A j \in 1..Len(doc.sents) : SentFactsFrom(n_Acme, doc.sents[j], 1) # <<>>
    /\ financial_facts = <<>>

\* the positions of the organization mentions of a sentence
OrgPositions(sent) == {k \in 1..Len(sent.ents) : sent.ents[k].label_ = "ORG"}

\* those whose text contains a name of the allow-list
PreferredPositions(sent) ==
    {k \in OrgPositions(sent) :
        \E name \in KnownNames : Contains(sent.ents[k].text, name)}

Lowest(S) == CHOOSE x \in S : \A y \in S : x <= y

\* C9: after a sentence with an organization mention, current_org is the first
\* mention that contains an allow-list name if there is one, otherwise the first
\* mention, whatever current_org was before.
C9_OrgSelection ==
    [][pc = "link" /\ i' = i + 1 /\ OrgPositions(doc.sents[i + 1]) # {} =>
           LET sent == doc.sents[i + 1]
           IN  current_org' =
                   IF PreferredPositions(sent) # {}
                   THEN sent.ents[Lowest(PreferredPositions(sent))].text
                   ELSE sent.ents[Lowest(OrgPositions(sent))].text]_vars

C9_Witness ==
    /\ pc = "link"
    /\ i >= 3
    /\ PreferredPositions(doc.sents[i - 2]) # {}
    /\ Lowest(PreferredPositions(doc.sents[i - 2])) > Lowest(OrgPositions(doc.sents[i - 2]))
    /\ PreferredPositions(doc.sents[i - 1]) # {}
    /\ OrgPositions(doc.sents[i]) # {}
    /\ PreferredPositions(doc.sents[i]) = {}
    /\ current_org = n_Acme

\* C10: every value among the facts is a trimmed string of more than 2
\* characters.
C10_TrimmedLength ==
    \A k \in 1..Len(facts) :
        /\ facts[k].Value = Strip(facts[k].Value)
        /\ Len(facts[k].Value) > 2

\* the mentions of a label whose normalized text is x
Mentions(l, x) ==
    LET ents == DocEnts(doc.sents)
    IN  Cardinality({k \in 1..Len(ents) :
            ents[k].label_ = l /\ ReplaceNewline(Strip(ents[k].text)) = x})

\* position in doc.ents of the first mention of a label whose normalized text is x
FirstMention(l, x) ==
    LET ents == DocEnts(doc.sents)
    IN  CHOOSE k \in 1..Len(ents) :
            /\ ents[k].label_ = l /\ ReplaceNewline(Strip(ents[k].text)) = x
            /\ \A m \in 1..(k - 1) :
                   ~(ents[m].label_ = l /\ ReplaceNewline(Strip(ents[m].text)) = x)

\* C6: each category's list has at most 5 strings, no string twice (after
\* newline normalization), by descending number of mentions, equal numbers in
\* first-seen order.
C6_TopFive ==
    pc \in {"classify", "call", "link", "done"} /\ DOMAIN entities = LabelSet =>
        \A l \in LabelSet :
            /\ Len(entities[l]) <= 5
            /\ \A a, b \in 1..Len(entities[l]) :
                   a < b =>
                       /\ entities[l][a] # entities[l][b]
                       /\ Mentions(l, entities[l][a]) >= Mentions(l, entities[l][b])
                       /\ Mentions(l, entities[l][a]) = Mentions(l, entities[l][b]) =>
                              FirstMention(l, entities[l][a]) < FirstMention(l, entities[l][b])

====
